---- MODULE Spec2Model ----
(***************************************************************************)
(* Hand-tracking interaction engine of leapmotion-game.                    *)
(*                                                                         *)
(*  - core/hand_tracker.py : HandData, TrackingListener.on_tracking_event  *)
(*    (the acquisition callback, one store to the shared record per step)  *)
(*  - core/ui_components.py, main_menu.py : AnimatedButton / GameCard      *)
(*    update and is_hand_activated (dwell / pinch activation)              *)
(*  - main_menu.py MainMenu.update and games/tic_tac_toe.py update_game    *)
(*    (the render tick, one load or store of the shared record per step)   *)
(*  - games/balloon_pop.py update_game (the render tick of a game whose    *)
(*    start overlay and game-over states return early)                     *)
(*  - games/fruit_ninja_game.py ScoreToggle (update and is_clicked)        *)
(*  - core/hand_tracker.py : HandTracker.start / stop / _tracking_loop     *)
(*    (the acquisition thread and its connection), driven by arbitrary     *)
(*    calls, by MainMenu.run, and by MainMenu.launch_game / BaseGame.run   *)
(*                                                                         *)
(* Units: device coordinates are in half device units (palm x = px2 / 2),  *)
(* so that int() truncation is visible; hover time is in milliseconds      *)
(* (0.016 s = 16, 1.0 s = 1000); distances are in hundredths of a device   *)
(* unit, rounded down.                                                     *)
(***************************************************************************)
EXTENDS Integers, Sequences, FiniteSets, TLC

\* ---------------------------------------------------------------- constants
WINDOW_WIDTH == 1200
WINDOW_HEIGHT == 800
HAND_PINCH_THRESHOLD == 30
HAND_HOVER_TIME_THRESHOLD == 1000
HOVER_STEP == 16
DEVICE_SPAN == 400
DEVICE_OFFSET_X == 200
TOGGLE_STEP == 1000
HAND_CLICK_DELAY == 30001
CLICK_DELAY == 18001
ANIMATION_STEPS == 15

\* ------------------------------------------------------------------- bounds
MaxCallbacks == 2
MaxTicks == 2
MaxRun == 130
MaxPinchRun == 11
MaxHover == 1100
MaxQueries == 2
MaxThreads == 2
MaxStops == 2
MaxLaunches == 1
MaxMenuCallbacks == 1
MaxBalloonCallbacks == 1
MaxGap == 33

\* ------------------------------------------------------------------ helpers
None == <<>>

Max(a, b) == IF a >= b THEN a ELSE b
Min(a, b) == IF a <= b THEN a ELSE b

\* Python int() of the rational n / d (d > 0): truncation toward zero.
TruncDiv(n, d) == IF n >= 0 THEN n \div d ELSE -((-n) \div d)

\* hand_tracker.py:91   int((palm.position.x + 200) * (WINDOW_WIDTH / 400))
ScreenX(px2) ==
    TruncDiv((px2 + 2 * DEVICE_OFFSET_X) * (WINDOW_WIDTH \div DEVICE_SPAN), 2)

\* hand_tracker.py:92   int((400 - palm.position.y) * (WINDOW_HEIGHT / 400))
ScreenY(py2) ==
    TruncDiv((2 * DEVICE_SPAN - py2) * (WINDOW_HEIGHT \div DEVICE_SPAN), 2)

\* hand_tracker.py:95-96   max(0, min(limit, v))
ClampNoUpper(v, limit) == Max(0, v)
Clamp(v, limit) == Max(0, Min(limit, v))

SqDist(a, b) ==
    (a[1] - b[1]) * (a[1] - b[1]) + (a[2] - b[2]) * (a[2] - b[2])
      + (a[3] - b[3]) * (a[3] - b[3])

RECURSIVE SqrtBisect(_, _, _)
SqrtBisect(n, lo, hi) ==
    IF lo >= hi THEN lo
    ELSE LET mid == (lo + hi + 1) \div 2
         IN  IF mid * mid <= n THEN SqrtBisect(n, mid, hi)
                               ELSE SqrtBisect(n, lo, mid - 1)

\* hand_tracker.py:102-104   (dx**2 + dy**2 + dz**2) ** 0.5, in hundredths
Distance(a, b) == SqrtBisect(SqDist(a, b) * 10000, 0, 40000)

\* hand_tracker.py:105   distance < HAND_PINCH_THRESHOLD
IsPinchInclusive(a, b) == Distance(a, b) <= HAND_PINCH_THRESHOLD * 100
IsPinch(a, b) == Distance(a, b) < HAND_PINCH_THRESHOLD * 100

\* ------------------------------------------------------------ tracking input
\* A hand of a tracking event: palm position (half units) and the tips
\* (distal.next_joint) of its digits, thumb first, index second.
Hand(p, d) == [palm |-> p, digits |-> d]

\* Tip pairs around the threshold: squared distances 0, 841, 899, 900 (twice,
\* once off-axis), 901, 961 and a large one.
Thumb == <<0, 0, 0>>
IndexTips == { <<0, 0, 0>>, <<29, 0, 0>>, <<27, 13, 1>>, <<30, 0, 0>>,
               <<18, 24, 0>>, <<20, 20, 10>>, <<30, 1, 0>>, <<31, 0, 0>>,
               <<-30, 0, 0>>, <<0, -29, 7>>, <<100, 100, 100>> }
DigitsWide == { <<>>, <<Thumb>> } \cup { <<Thumb, i>> : i \in IndexTips }
                 \cup { <<Thumb, <<29, 0, 0>>, <<500, 0, 0>> >> }

\* Palm positions far outside, on the edge of and inside the device span.
PalmWideX == { -4000, -801, -401, -400, -399, 0, 1, 399, 400, 401, 4000 }
PalmWideY == { -4000, -1, 0, 1, 399, 799, 800, 801, 4000 }
PalmsWide == PalmWideX \X PalmWideY

PalmsFew == { <<0, 400>>, <<4000, -4000>>, <<-4000, 4000>> }

\* Every palm with one pair of tips, a few palms with every list of digits,
\* no hand, and two hands of which the second is out of range and open.
EventsWide ==
    { <<>> }
      \cup { << Hand(p, <<Thumb, <<29, 0, 0>> >>) >> : p \in PalmsWide }
      \cup { << Hand(p, d) >> : p \in PalmsFew, d \in DigitsWide }
      \cup { << Hand(<<0, 400>>, <<Thumb, <<29, 0, 0>> >>),
                Hand(<<4000, 4000>>, <<Thumb, <<31, 0, 0>> >>) >> }

\* The small set used when the callback is interleaved with the render tick:
\* no hand; a pinching hand over the button; a hand off-screen, not pinching.
EventsSmall ==
    { <<>>,
      << Hand(<<-60, 330>>, <<Thumb, <<10, 0, 0>> >>) >>,
      << Hand(<<900, -200>>, <<Thumb, <<40, 0, 0>> >>) >> }

\* -------------------------------------------------------------------- state
VARIABLES
    hand_data,    \* the shared HandData record
    cb_pc,        \* position of the acquisition callback
    ev,           \* event.hands of the callback in progress (or the last one)
    ncb,          \* number of callbacks begun
    published,    \* history: the record as it stood when a callback ended
    t_pc,         \* position of the render tick
    t,            \* locals of the render tick
    last_pinch,   \* the consumer's pinch edge tracker
    nticks,       \* number of ticks begun
    screen,       \* which loop runs on the render thread: "menu" or "game"
    game_state,   \* TicTacToeGame.game_state: "playing" or "game_over"
    btn,          \* the control updated by the tick (AnimatedButton / GameCard)
    c,            \* history of the control's calls
    cb_hist,      \* history: the record before the callback, and how it ended
    running,      \* HandTracker.running of every tracker
    thread,       \* HandTracker.thread of every tracker (0 is None)
    threads,      \* the acquisition threads created so far
    caller,       \* the call of stop() in progress on the render thread
    main_pc,      \* position of the render thread in MainMenu.run / BaseGame.run
    life,         \* history of the lifecycle calls
    balloon,      \* BalloonPopGame: game_state, game_over and its buttons
    toggle,       \* the ScoreToggle of FruitNinjaGame
    tg            \* history of the toggle's calls

vars == << hand_data, cb_pc, ev, ncb, published, t_pc, t, last_pinch, nticks,
           screen, game_state, btn, c, cb_hist, running, thread, threads,
           caller, main_pc, life, balloon, toggle, tg >>

acqVars == << hand_data, cb_pc, ev, ncb, published >>
toggleVars == << toggle, tg >>
tickVars == << t_pc, t, last_pinch, nticks, screen, game_state, balloon,
              toggleVars >>
ctlVars == << btn, c >>
lifeVars == << running, thread, threads, caller, main_pc, life >>

\* hand_tracker.py:14-20
HandDataActiveDefault ==
    [x |-> 400, y |-> 400, pinching |-> FALSE, active |-> TRUE,
     hands_count |-> 0]

HandData == [x |-> 400, y |-> 400, pinching |-> FALSE, active |-> FALSE,
             hands_count |-> 0]

\* ------------------------------------------------- the acquisition callback
\* on_tracking_event, hand_tracker.py:80-111.  Every store to the shared
\* record is one step; the render thread may run between any two of them.

\* line 80: the SDK delivers a tracking event
TrackingEvent(E) ==
    /\ cb_pc = "idle"
    /\ ncb < MaxCallbacks
    /\ \E e \in E : ev' = e
    /\ ncb' = ncb + 1
    /\ cb_pc' = "l83"
    /\ UNCHANGED << hand_data, published >>

CallbackDone ==
    /\ cb_pc' = "idle"
    /\ published' = published \cup { hand_data' }

\* line 83: self.hand_data.hands_count = len(event.hands)
StoreHandsCount ==
    /\ cb_pc = "l83"
    /\ hand_data' = [hand_data EXCEPT !.hands_count = Len(ev)]
    /\ cb_pc' = "l84"
    /\ UNCHANGED << ev, ncb, published >>

\* line 84: self.hand_data.active = True;  line 86: if event.hands
StoreActive ==
    /\ cb_pc = "l84"
    /\ hand_data' = [hand_data EXCEPT !.active = TRUE]
    /\ cb_pc' = IF Len(ev) > 0 THEN "l91" ELSE "l109"
    /\ UNCHANGED << ev, ncb, published >>

\* line 91
StoreRawX ==
    /\ cb_pc = "l91"
    /\ hand_data' = [hand_data EXCEPT !.x = ScreenX(ev[1].palm[1])]
    /\ cb_pc' = "l92"
    /\ UNCHANGED << ev, ncb, published >>

\* line 92
StoreRawY ==
    /\ cb_pc = "l92"
    /\ hand_data' = [hand_data EXCEPT !.y = ScreenY(ev[1].palm[2])]
    /\ cb_pc' = "l95"
    /\ UNCHANGED << ev, ncb, published >>

\* line 95: self.hand_data.x = max(0, min(WINDOW_WIDTH, self.hand_data.x))
ClampX ==
    /\ cb_pc = "l95"
    /\ hand_data' = [hand_data EXCEPT !.x = Clamp(hand_data.x, WINDOW_WIDTH)]
    /\ cb_pc' = "l96"
    /\ UNCHANGED << ev, ncb, published >>

\* line 96
ClampY ==
    /\ cb_pc = "l96"
    /\ hand_data' = [hand_data EXCEPT !.y = Clamp(hand_data.y, WINDOW_HEIGHT)]
    /\ cb_pc' = "l99"
    /\ UNCHANGED << ev, ncb, published >>

\* lines 99-107: pinch of the first hand, then line 111
StorePinchKeepsPrevious ==
    /\ cb_pc = "l99"
    /\ hand_data' =
         [hand_data EXCEPT !.pinching =
            IF Len(ev[1].digits) >= 2
            THEN IsPinch(ev[1].digits[1], ev[1].digits[2])
            ELSE @]
    /\ CallbackDone
    /\ UNCHANGED << ev, ncb >>

StorePinch ==
    /\ cb_pc = "l99"
    /\ hand_data' =
         [hand_data EXCEPT !.pinching =
            IF Len(ev[1].digits) >= 2
            THEN IsPinch(ev[1].digits[1], ev[1].digits[2])
            ELSE FALSE]
    /\ CallbackDone
    /\ UNCHANGED << ev, ncb >>

\* line 109: no hands, then line 111
StoreNoPinchResetsPosition ==
    /\ cb_pc = "l109"
    /\ hand_data' = [hand_data EXCEPT !.pinching = FALSE,
                                      !.x = HandData.x, !.y = HandData.y]
    /\ CallbackDone
    /\ UNCHANGED << ev, ncb >>

StoreNoPinch ==
    /\ cb_pc = "l109"
    /\ hand_data' = [hand_data EXCEPT !.pinching = FALSE]
    /\ CallbackDone
    /\ UNCHANGED << ev, ncb >>

CallbackStep ==
    \/ StoreHandsCount
    \/ StoreActive
    \/ StoreRawX
    \/ StoreRawY
    \/ ClampX
    \/ ClampY
    \/ StorePinch
    \/ StoreNoPinch

\* ------------------------------------------------------------------ control
\* pygame.Rect.collidepoint: left <= x < right and top <= y < bottom
CollidePoint(rect, p) ==
    /\ rect.x <= p[1] /\ p[1] < rect.x + rect.w
    /\ rect.y <= p[2] /\ p[2] < rect.y + rect.h

\* tic_tac_toe.py:416-427, the PLAY AGAIN button on a 1200 x 800 screen
ButtonRect == [x |-> 450, y |-> 450, w |-> 140, h |-> 50]

\* AnimatedButton.__init__ (ui_components.py:23-32), GameCard.__init__
Button == [rect |-> ButtonRect, hovered |-> FALSE, hand_hover_time |-> 0,
           hand_activated |-> FALSE]

\* AnimatedButton.update (ui_components.py:34-57) and GameCard.update
\* (main_menu.py:91-110): the same hover / activation logic.
ButtonUpdatePinchNeedsDwell(b, mouse_pos, hand_pos, hand_pinching) ==
    LET hand_hovered == hand_pos # None /\ CollidePoint(b.rect, hand_pos)
        time == b.hand_hover_time + HOVER_STEP
    IN  IF hand_hovered
        THEN [b EXCEPT !.hovered = TRUE,
                       !.hand_hover_time = time,
                       !.hand_activated =
                           b.hand_activated
                             \/ time >= HAND_HOVER_TIME_THRESHOLD]
        ELSE [b EXCEPT !.hovered = CollidePoint(b.rect, mouse_pos),
                       !.hand_hover_time = 0,
                       !.hand_activated = FALSE]

ButtonUpdateKeepsTime(b, mouse_pos, hand_pos, hand_pinching) ==
    LET mouse_hovered == CollidePoint(b.rect, mouse_pos)
        hand_hovered == hand_pos # None /\ CollidePoint(b.rect, hand_pos)
        time == b.hand_hover_time + HOVER_STEP
    IN  IF hand_hovered
        THEN IF hand_pinching
             THEN [b EXCEPT !.hovered = TRUE, !.hand_activated = TRUE]
             ELSE [b EXCEPT !.hovered = TRUE,
                            !.hand_hover_time = time,
                            !.hand_activated =
                                b.hand_activated
                                  \/ time >= HAND_HOVER_TIME_THRESHOLD]
        ELSE [b EXCEPT !.hovered = mouse_hovered,
                       !.hand_activated = FALSE]

ButtonUpdateKeepsLatch(b, mouse_pos, hand_pos, hand_pinching) ==
    LET mouse_hovered == CollidePoint(b.rect, mouse_pos)
        hand_hovered == hand_pos # None /\ CollidePoint(b.rect, hand_pos)
        time == b.hand_hover_time + HOVER_STEP
    IN  IF hand_hovered
        THEN IF hand_pinching
             THEN [b EXCEPT !.hovered = TRUE, !.hand_activated = TRUE]
             ELSE [b EXCEPT !.hovered = TRUE,
                            !.hand_hover_time = time,
                            !.hand_activated =
                                b.hand_activated
                                  \/ time >= HAND_HOVER_TIME_THRESHOLD]
        ELSE [b EXCEPT !.hovered = mouse_hovered,
                       !.hand_hover_time = 0]

ButtonUpdateMouseDwells(b, mouse_pos, hand_pos, hand_pinching) ==
    LET mouse_hovered == CollidePoint(b.rect, mouse_pos)
        hand_hovered == hand_pos # None /\ CollidePoint(b.rect, hand_pos)
        hovered == mouse_hovered \/ hand_hovered
        time == b.hand_hover_time + HOVER_STEP
    IN  IF hovered
        THEN IF hand_pinching
             THEN [b EXCEPT !.hovered = TRUE, !.hand_activated = TRUE]
             ELSE [b EXCEPT !.hovered = TRUE,
                            !.hand_hover_time = time,
                            !.hand_activated =
                                b.hand_activated
                                  \/ time >= HAND_HOVER_TIME_THRESHOLD]
        ELSE [b EXCEPT !.hovered = FALSE,
                       !.hand_hover_time = 0,
                       !.hand_activated = FALSE]

ButtonUpdate(b, mouse_pos, hand_pos, hand_pinching) ==
    LET mouse_hovered == CollidePoint(b.rect, mouse_pos)
        hand_hovered == hand_pos # None /\ CollidePoint(b.rect, hand_pos)
        time == b.hand_hover_time + HOVER_STEP
    IN  IF hand_hovered
        THEN IF hand_pinching
             THEN [b EXCEPT !.hovered = TRUE, !.hand_activated = TRUE]
             ELSE [b EXCEPT !.hovered = TRUE,
                            !.hand_hover_time = time,
                            !.hand_activated =
                                b.hand_activated
                                  \/ time >= HAND_HOVER_TIME_THRESHOLD]
        ELSE [b EXCEPT !.hovered = mouse_hovered,
                       !.hand_hover_time = 0,
                       !.hand_activated = FALSE]

\* AnimatedButton.is_hand_activated (ui_components.py:90-95) and
\* GameCard.is_hand_activated (main_menu.py:273-278): the returned value
\* and the control afterwards.
IsHandActivatedNoReset(b) == [ret |-> b.hand_activated, btn |-> b]

IsHandActivated(b) ==
    IF b.hand_activated
    THEN [ret |-> TRUE,
          btn |-> [b EXCEPT !.hand_activated = FALSE, !.hand_hover_time = 0]]
    ELSE [ret |-> FALSE, btn |-> b]

\* History of the calls made on the control:
\*   op    the last call ("none", "update", "query")
\*   ret, pret   what the last query and the one before it returned
\*   hov, pin    hand_hovered and hand_pinching of the last update
\*   abs   the last update was given no hand_pos (None)
\*   pend  hand_activated before the last update
\*   ppin  hand_pinching of the update before the last
\*   acc   hand_hover_time before the last update
\*   nq    queries since the last update
\*   run   consecutive updates with the hand inside and not pinching
\*   prun  consecutive updates with the hand inside and pinching
\*   ok    since the hand was last outside, every update was followed by
\*         exactly one query before the next update
CtlHistory == [op |-> "none", ret |-> FALSE, pret |-> FALSE, hov |-> FALSE,
               pin |-> FALSE, ppin |-> FALSE, acc |-> 0, nq |-> 0,
               run |-> 0, prun |-> 0, ok |-> TRUE, abs |-> FALSE,
               pend |-> FALSE]

\* Pointer positions offered to the control: on it, and off it.
PosInside == <<510, 470>>
PosOutside == <<1199, 799>>
MousePositions == { PosInside, PosOutside }
HandPositions == { None, PosInside, PosOutside }

\* One call of update(mouse_pos, hand_pos, hand_pinching).  The run counters
\* are kept only while `ok` holds; the guards cap the lengths of the runs and
\* the hover time that updates without queries can pile up.
ControlUpdate ==
    \E m \in MousePositions, hp \in HandPositions, pinch \in BOOLEAN :
      LET hov == hp # None /\ CollidePoint(btn.rect, hp)
          paired == c.op = "none" \/ (c.op = "query" /\ c.nq = 1)
          ok == IF hov THEN c.ok /\ paired ELSE TRUE
      IN  /\ (hov /\ ~pinch) =>
                (c.run < MaxRun /\ btn.hand_hover_time < MaxHover)
          /\ (hov /\ pinch) => c.prun < MaxPinchRun
          /\ btn' = ButtonUpdate(btn, m, hp, pinch)
          /\ c' = [c EXCEPT
                     !.op = "update",
                     !.hov = hov,
                     !.pin = pinch,
                     !.ppin = c.pin,
                     !.acc = btn.hand_hover_time,
                     !.nq = 0,
                     !.run = IF hov /\ ~pinch /\ ok THEN c.run + 1 ELSE 0,
                     !.prun = IF hov /\ pinch /\ ok THEN c.prun + 1 ELSE 0,
                     !.ok = ok,
                     !.abs = (hp = None),
                     !.pend = btn.hand_activated]

\* One call of is_hand_activated()
ControlQuery ==
    /\ c.op # "none"
    /\ c.nq < MaxQueries
    /\ LET r == IsHandActivated(btn)
       IN  /\ btn' = r.btn
           /\ c' = [c EXCEPT !.op = "query", !.ret = r.ret, !.pret = c.ret,
                             !.nq = c.nq + 1]

NextCtl ==
    \/ ControlUpdate /\ UNCHANGED << acqVars, tickVars, cb_hist, lifeVars >>
    \/ ControlQuery /\ UNCHANGED << acqVars, tickVars, cb_hist, lifeVars >>

\* ---------------------------------------------------------- the render tick
\* Locals of one tick:
\*   mouse      pygame.mouse.get_pos() of this tick
\*   pose       history: the shared record as it stood at the tick's first load
\*   fb         the fallback branch was taken (no active hand seen)
\*   tmp        a loaded value waiting to be stored or paired
\*   edge_pinch the pinching value loaded for the rising-edge test
\*   edge       the rising-edge test succeeded
\*   act_pos    the position the edge action was taken at
\*   hand_pos   the hand_pos handed to the control (None when absent)
\*   ctl_used   the control was updated in this tick
\*   ctl_pinch  the pinching value handed to the control
\*   rd         history: the fields loaded for the control update
\*   activated  is_hand_activated() returned True
\*   resets     calls of reset_game_only() in this tick
\*   b_ncb, b_idle    history: callbacks begun, and no callback in progress,
\*              when this tick began
\*   prev, prev_ncb, prev_idle   history: pose, b_ncb and b_idle of the tick
\*              before this one
TickLocals(m) ==
    [mouse |-> m, pose |-> HandData, fb |-> FALSE, tmp |-> 0,
     edge_pinch |-> FALSE, edge |-> FALSE, act_pos |-> None,
     hand_pos |-> None, ctl_used |-> FALSE, ctl_pinch |-> FALSE,
     rd |-> <<>>, activated |-> FALSE, resets |-> 0,
     b_ncb |-> -1, b_idle |-> FALSE,
     prev |-> HandData, prev_ncb |-> -1, prev_idle |-> FALSE]

\* pygame.mouse.get_pos() on a 1200 x 800 window (base_game.py:23)
MouseSmall == { <<100, 100>>, <<520, 480>> }

\* MainMenu.update line 421 / TicTacToeGame.update_game lines 686-687
TickBegin ==
    /\ t_pc = "idle"
    /\ nticks < MaxTicks
    /\ \E m \in MouseSmall : t' = TickLocals(m)
    /\ nticks' = nticks + 1
    /\ t_pc' = IF screen = "menu" THEN "m426a" ELSE "g693a"
    /\ UNCHANGED << hand_data, last_pinch, screen, game_state, btn >>

\* The same, keeping the history of the tick before.
TickBeginHist ==
    /\ t_pc = "idle"
    /\ nticks < MaxTicks
    /\ \E m \in MouseSmall :
          t' = [TickLocals(m) EXCEPT !.b_ncb = ncb,
                                     !.b_idle = (cb_pc = "idle"),
                                     !.prev = t.pose,
                                     !.prev_ncb = t.b_ncb,
                                     !.prev_idle = t.b_idle]
    /\ nticks' = nticks + 1
    /\ t_pc' = IF screen = "menu" THEN "m426a" ELSE "g693a"
    /\ UNCHANGED << hand_data, last_pinch, screen, game_state, btn >>

\* update + query of the control, as both loops do it:
\*   card.update(mouse_pos, hand_pos, hand_data.pinching)      main_menu 431
\*   if card.is_hand_activated(): ...                           main_menu 434
UpdateAndQuery(b, m, hp, pinch) ==
    IsHandActivated(ButtonUpdate(b, m, hp, pinch))

\* ---- MainMenu.update, main_menu.py:421-435 (one game card)
\* line 426, first operand: hand_data.active
MenuLoadActive ==
    /\ t_pc = "m426a"
    /\ t' = [t EXCEPT !.pose = hand_data,
                      !.rd = "active" :> hand_data.active,
                      !.fb = ~hand_data.active]
    /\ t_pc' = IF hand_data.active THEN "m426b" ELSE "m431"
    /\ UNCHANGED << hand_data, last_pinch, nticks, screen, game_state, btn >>

\* line 426, second operand: hand_data.hands_count > 0
MenuLoadHandsCount ==
    /\ t_pc = "m426b"
    /\ t' = [t EXCEPT !.rd = @ @@ ("hands_count" :> hand_data.hands_count),
                      !.fb = hand_data.hands_count = 0]
    /\ t_pc' = IF hand_data.hands_count > 0 THEN "m427x" ELSE "m431"
    /\ UNCHANGED << hand_data, last_pinch, nticks, screen, game_state, btn >>

\* line 427: hand_pos = (hand_data.x, hand_data.y), first load
MenuLoadX ==
    /\ t_pc = "m427x"
    /\ t' = [t EXCEPT !.rd = @ @@ ("x" :> hand_data.x), !.tmp = hand_data.x]
    /\ t_pc' = "m427y"
    /\ UNCHANGED << hand_data, last_pinch, nticks, screen, game_state, btn >>

\* line 427, second load
MenuLoadY ==
    /\ t_pc = "m427y"
    /\ t' = [t EXCEPT !.rd = @ @@ ("y" :> hand_data.y),
                      !.hand_pos = << t.tmp, hand_data.y >>, !.tmp = 0]
    /\ t_pc' = "m431"
    /\ UNCHANGED << hand_data, last_pinch, nticks, screen, game_state, btn >>

\* lines 430-435: load pinching, update the card, query it, launch the game
MenuUpdateCard ==
    /\ t_pc = "m431"
    /\ LET r == UpdateAndQuery(btn, t.mouse, t.hand_pos, hand_data.pinching)
       IN  /\ btn' = r.btn
           /\ t' = [t EXCEPT !.rd = @ @@ ("pinching" :> hand_data.pinching),
                             !.ctl_used = TRUE,
                             !.ctl_pinch = hand_data.pinching,
                             !.activated = r.ret]
    /\ t_pc' = "idle"
    /\ UNCHANGED << hand_data, last_pinch, nticks, screen, game_state >>

\* ---- TicTacToeGame.update_game, tic_tac_toe.py:684-749, in the states
\* 'playing' and 'game_over' (PLAY AGAIN button)
\* line 693, first operand: not hand_data.active
GameLoadActive ==
    /\ t_pc = "g693a"
    /\ t' = [t EXCEPT !.pose = hand_data, !.fb = ~hand_data.active]
    /\ t_pc' = IF hand_data.active THEN "g693b" ELSE "g694x"
    /\ UNCHANGED << hand_data, last_pinch, nticks, screen, game_state, btn >>

\* line 693, second operand: hand_data.hands_count == 0
GameLoadHandsCount ==
    /\ t_pc = "g693b"
    /\ t' = [t EXCEPT !.fb = hand_data.hands_count = 0]
    /\ t_pc' = IF hand_data.hands_count = 0 THEN "g694x" ELSE "g697xr"
    /\ UNCHANGED << hand_data, last_pinch, nticks, screen, game_state, btn >>

\* line 694: hand_data.x, hand_data.y = mouse_pos, first store
GameStoreMouseX ==
    /\ t_pc = "g694x"
    /\ hand_data' = [hand_data EXCEPT !.x = t.mouse[1]]
    /\ t_pc' = "g694y"
    /\ UNCHANGED << t, last_pinch, nticks, screen, game_state, btn >>

\* line 694, second store
GameStoreMouseY ==
    /\ t_pc = "g694y"
    /\ hand_data' = [hand_data EXCEPT !.y = t.mouse[2]]
    /\ t_pc' = "g703"
    /\ UNCHANGED << t, last_pinch, nticks, screen, game_state, btn >>

\* line 697: hand_data.x = int(hand_data.x), the load
GameLoadIntX ==
    /\ t_pc = "g697xr"
    /\ t' = [t EXCEPT !.tmp = hand_data.x]
    /\ t_pc' = "g697xw"
    /\ UNCHANGED << hand_data, last_pinch, nticks, screen, game_state, btn >>

\* line 697, the store
GameStoreIntX ==
    /\ t_pc = "g697xw"
    /\ hand_data' = [hand_data EXCEPT !.x = t.tmp]
    /\ t' = [t EXCEPT !.tmp = 0]
    /\ t_pc' = "g697yr"
    /\ UNCHANGED << last_pinch, nticks, screen, game_state, btn >>

\* line 698: hand_data.y = int(hand_data.y), the load
GameLoadIntY ==
    /\ t_pc = "g697yr"
    /\ t' = [t EXCEPT !.tmp = hand_data.y]
    /\ t_pc' = "g697yw"
    /\ UNCHANGED << hand_data, last_pinch, nticks, screen, game_state, btn >>

\* line 698, the store
GameStoreIntY ==
    /\ t_pc = "g697yw"
    /\ hand_data' = [hand_data EXCEPT !.y = t.tmp]
    /\ t' = [t EXCEPT !.tmp = 0]
    /\ t_pc' = "g703"
    /\ UNCHANGED << last_pinch, nticks, screen, game_state, btn >>

\* line 703: if hand_data.pinching and not self.last_pinch
GameEdgeTest ==
    /\ t_pc = "g703"
    /\ t' = [t EXCEPT !.edge_pinch = hand_data.pinching,
                      !.edge = hand_data.pinching /\ ~last_pinch]
    /\ t_pc' = IF hand_data.pinching /\ ~last_pinch THEN "g720x" ELSE "g726"
    /\ UNCHANGED << hand_data, last_pinch, nticks, screen, game_state, btn >>

\* lines 714 / 720: (hand_data.x, hand_data.y), first load
GameLoadActX ==
    /\ t_pc = "g720x"
    /\ t' = [t EXCEPT !.tmp = hand_data.x]
    /\ t_pc' = "g720y"
    /\ UNCHANGED << hand_data, last_pinch, nticks, screen, game_state, btn >>

\* lines 712-724: second load, then the action of the game state:
\* 'playing': make_move, which may end the game (check_winner, 584-633);
\* 'game_over': reset_game_only() when the position is on PLAY AGAIN; it
\* leaves game_state alone (line 492).
GameEdgeAction ==
    /\ t_pc = "g720y"
    /\ LET pos == << t.tmp, hand_data.y >>
       IN  /\ t' = [t EXCEPT !.act_pos = pos, !.tmp = 0,
                             !.resets =
                                 IF game_state = "game_over"
                                      /\ CollidePoint(btn.rect, pos)
                                 THEN @ + 1 ELSE @]
           /\ \/ game_state' = game_state
              \/ game_state = "playing" /\ game_state' = "game_over"
    /\ t_pc' = "g726"
    /\ UNCHANGED << hand_data, last_pinch, nticks, screen, btn >>

\* line 726: self.last_pinch = hand_data.pinching
GameStoreLastPinch ==
    /\ t_pc = "g726"
    /\ last_pinch' = hand_data.pinching
    /\ t_pc' = "g729a"
    /\ UNCHANGED << hand_data, t, nticks, screen, game_state, btn >>

\* line 729, condition, first operand
GameLoadActive2 ==
    /\ t_pc = "g729a"
    /\ t' = [t EXCEPT !.rd = "active" :> hand_data.active]
    /\ t_pc' = IF hand_data.active THEN "g729b" ELSE "g742"
    /\ UNCHANGED << hand_data, last_pinch, nticks, screen, game_state, btn >>

\* line 729, condition, second operand
GameLoadHandsCount2 ==
    /\ t_pc = "g729b"
    /\ t' = [t EXCEPT !.rd = @ @@ ("hands_count" :> hand_data.hands_count)]
    /\ t_pc' = IF hand_data.hands_count > 0 THEN "g729x" ELSE "g742"
    /\ UNCHANGED << hand_data, last_pinch, nticks, screen, game_state, btn >>

\* line 729: (hand_data.x, hand_data.y), first load
GameLoadX ==
    /\ t_pc = "g729x"
    /\ t' = [t EXCEPT !.rd = @ @@ ("x" :> hand_data.x), !.tmp = hand_data.x]
    /\ t_pc' = "g729y"
    /\ UNCHANGED << hand_data, last_pinch, nticks, screen, game_state, btn >>

\* line 729, second load
GameLoadY ==
    /\ t_pc = "g729y"
    /\ t' = [t EXCEPT !.rd = @ @@ ("y" :> hand_data.y),
                      !.hand_pos = << t.tmp, hand_data.y >>, !.tmp = 0]
    /\ t_pc' = "g742"
    /\ UNCHANGED << hand_data, last_pinch, nticks, screen, game_state, btn >>

\* lines 741-747: in 'game_over' load pinching, update PLAY AGAIN, query it,
\* and on activation reset_game_only() and game_state = 'playing'
GameUpdateButton ==
    /\ t_pc = "g742"
    /\ IF game_state = "game_over"
       THEN LET r == UpdateAndQuery(btn, t.mouse, t.hand_pos,
                                    hand_data.pinching)
            IN  /\ btn' = r.btn
                /\ t' = [t EXCEPT
                           !.rd = @ @@ ("pinching" :> hand_data.pinching),
                           !.ctl_used = TRUE,
                           !.ctl_pinch = hand_data.pinching,
                           !.activated = r.ret,
                           !.resets = IF r.ret THEN @ + 1 ELSE @]
                /\ game_state' = IF r.ret THEN "playing" ELSE game_state
       ELSE UNCHANGED << btn, t, game_state >>
    /\ t_pc' = "idle"
    /\ UNCHANGED << hand_data, last_pinch, nticks, screen >>

MenuStep ==
    \/ MenuLoadActive
    \/ MenuLoadHandsCount
    \/ MenuLoadX
    \/ MenuLoadY
    \/ MenuUpdateCard

GameStep ==
    \/ GameLoadActive
    \/ GameLoadHandsCount
    \/ GameStoreMouseX
    \/ GameStoreMouseY
    \/ GameLoadIntX
    \/ GameStoreIntX
    \/ GameLoadIntY
    \/ GameStoreIntY
    \/ GameEdgeTest
    \/ GameLoadActX
    \/ GameEdgeAction
    \/ GameStoreLastPinch
    \/ GameLoadActive2
    \/ GameLoadHandsCount2
    \/ GameLoadX
    \/ GameLoadY
    \/ GameUpdateButton

\* ---- BalloonPopGame.update_game, balloon_pop.py:935-1061
\* The buttons on a 1200 x 800 screen: START GAME of the start overlay
\* (lines 167-179), New Game (788-790) and Play Again (792-795).
StartButtonRect == [x |-> 500, y |-> 480, w |-> 200, h |-> 60]
RestartButtonRect == [x |-> 1000, y |-> 20, w |-> 130, h |-> 50]
GameOverRestartRect == [x |-> 500, y |-> 460, w |-> 200, h |-> 60]

\* BalloonPopGame.__init__, lines 607-627, and the buttons.  The overlay's
\* is_showing is true exactly while game_state is "START".
BalloonPop ==
    [game_state |-> "START", game_over |-> FALSE,
     start_button |-> [Button EXCEPT !.rect = StartButtonRect],
     restart_button |-> [Button EXCEPT !.rect = RestartButtonRect],
     game_over_restart_button |-> [Button EXCEPT !.rect = GameOverRestartRect]]

\* start_new_game, lines 872-879
StartNewGame(g) == [g EXCEPT !.game_state = "PLAYING", !.game_over = FALSE]

\* restart_game, lines 922-932, called outside "START": a new start overlay
RestartGame(g) ==
    IF g.game_state = "START"
    THEN StartNewGame(g)
    ELSE [g EXCEPT !.game_state = "START",
                   !.start_button = BalloonPop.start_button]

\* AnimatedButton.is_clicked, ui_components.py:87-88
IsClicked(b, pos, pressed) == CollidePoint(b.rect, pos) /\ pressed

\* Mouse positions of the balloon game: off the buttons, on START GAME and
\* Play Again, and on New Game.
MouseBalloon == { <<100, 100>>, <<520, 500>>, <<1010, 30>> }

\* Events of the balloon game: no hand; a pinching hand at (510, 490), on
\* START GAME and on Play Again.
EventsBalloon == { <<>>, << Hand(<<-60, 310>>, <<Thumb, <<10, 0, 0>> >>) >> }

\* lines 937-943: the locals of the tick; mouse_clicked is
\* pygame.mouse.get_pressed()[0]
BalloonTickBegin ==
    /\ t_pc = "idle"
    /\ nticks < MaxTicks
    /\ \E m \in MouseBalloon, pressed \in BOOLEAN :
          t' = [mouse_clicked |-> pressed, hand_clicked |-> FALSE,
                closest |-> FALSE]
                 @@ [TickLocals(m) EXCEPT !.b_ncb = ncb,
                                          !.b_idle = (cb_pc = "idle")]
    /\ nticks' = nticks + 1
    /\ t_pc' = "b945a"
    /\ UNCHANGED << hand_data, last_pinch, balloon >>

\* line 945, first operand: hand_data.active
BalloonLoadActive ==
    /\ t_pc = "b945a"
    /\ t' = [t EXCEPT !.pose = hand_data]
    /\ t_pc' = IF hand_data.active THEN "b945b" ELSE "b950"
    /\ UNCHANGED << hand_data, last_pinch, nticks, balloon >>

\* line 945, second operand: hand_data.hands_count > 0
BalloonLoadHandsCount ==
    /\ t_pc = "b945b"
    /\ t_pc' = IF hand_data.hands_count > 0 THEN "b946x" ELSE "b950"
    /\ UNCHANGED << hand_data, t, last_pinch, nticks, balloon >>

\* line 946: hand_pos = (hand_data.x, hand_data.y), first load
BalloonLoadX ==
    /\ t_pc = "b946x"
    /\ t' = [t EXCEPT !.tmp = hand_data.x]
    /\ t_pc' = "b946y"
    /\ UNCHANGED << hand_data, last_pinch, nticks, balloon >>

\* line 946, second load
BalloonLoadY ==
    /\ t_pc = "b946y"
    /\ t' = [t EXCEPT !.hand_pos = << t.tmp, hand_data.y >>, !.tmp = 0]
    /\ t_pc' = "b947"
    /\ UNCHANGED << hand_data, last_pinch, nticks, balloon >>

\* line 947: hand_clicked = hand_data.pinching and not self.last_pinch
BalloonLoadPinch ==
    /\ t_pc = "b947"
    /\ t' = [t EXCEPT !.edge_pinch = hand_data.pinching,
                      !.hand_clicked = hand_data.pinching /\ ~last_pinch]
    /\ t_pc' = "b950"
    /\ UNCHANGED << hand_data, last_pinch, nticks, balloon >>

\* lines 950-956 in "START": SimpleStartOverlay.update (181-197), then
\* start_new_game() when the overlay closed, then return.
BalloonStartOverlay ==
    /\ t_pc = "b950"
    /\ balloon.game_state = "START"
    /\ LET hp == t.hand_pos
           check_pos == IF hp # None THEN hp ELSE t.mouse
           clicked == IF hp # None THEN t.hand_clicked ELSE t.mouse_clicked
           b == ButtonUpdate(balloon.start_button, t.mouse, hp,
                             IF hp # None THEN t.hand_clicked ELSE FALSE)
           r == IF IsClicked(b, check_pos, clicked)
                THEN [ret |-> TRUE, btn |-> b]
                ELSE IsHandActivated(b)
           g == [balloon EXCEPT !.start_button = r.btn]
       IN  /\ balloon' = IF r.ret THEN StartNewGame(g) ELSE g
           /\ t' = [t EXCEPT !.ctl_used = TRUE, !.activated = r.ret]
    /\ t_pc' = "idle"
    /\ UNCHANGED << hand_data, last_pinch, nticks >>

\* line 959: restart_button.update(..., hand_data.pinching if hand_pos ...)
BalloonUpdateRestart ==
    /\ t_pc = "b950"
    /\ balloon.game_state # "START"
    /\ LET pinch == t.hand_pos # None /\ hand_data.pinching
       IN  /\ balloon' = [balloon EXCEPT !.restart_button =
                             ButtonUpdate(@, t.mouse, t.hand_pos, pinch)]
           /\ t' = [t EXCEPT !.ctl_used = TRUE, !.ctl_pinch = pinch]
    /\ t_pc' = "b961"
    /\ UNCHANGED << hand_data, last_pinch, nticks >>

\* lines 961-962: in game over, game_over_restart_button.update(...)
BalloonUpdateGameOverRestart ==
    /\ t_pc = "b961"
    /\ LET pinch == t.hand_pos # None /\ hand_data.pinching
       IN  balloon' =
             IF balloon.game_over
             THEN [balloon EXCEPT !.game_over_restart_button =
                     ButtonUpdate(@, t.mouse, t.hand_pos, pinch)]
             ELSE balloon
    /\ t_pc' = "b964"
    /\ UNCHANGED << hand_data, t, last_pinch, nticks >>

\* lines 964-977: query the buttons, restart_game() on an activation, and
\* in game over return.
BalloonQueryButtons ==
    /\ t_pc = "b964"
    /\ LET r1 == IsHandActivated(balloon.restart_button)
           g1 == [balloon EXCEPT !.restart_button = r1.btn]
           r2 == IsHandActivated(balloon.game_over_restart_button)
           g2 == [g1 EXCEPT !.game_over_restart_button = r2.btn]
       IN  /\ balloon' =
                 IF r1.ret THEN RestartGame(g1)
                 ELSE IF balloon.game_over
                      THEN (IF r2.ret THEN RestartGame(g2) ELSE g2)
                      ELSE g1
           /\ t' = [t EXCEPT !.activated =
                                r1.ret \/ (balloon.game_over /\ r2.ret)]
    /\ t_pc' = IF balloon.game_over THEN "idle" ELSE "b1000"
    /\ UNCHANGED << hand_data, last_pinch, nticks >>

\* lines 979-1016: spawn and move the balloons; the eighth balloon missed
\* ends the game (lines 1005-1007).  The balloons are not modelled: a
\* running game may end on any tick.
BalloonUpdateBalloons ==
    /\ t_pc = "b1000"
    /\ \/ balloon' = balloon
       \/ /\ balloon.game_state = "PLAYING"
          /\ balloon' = [balloon EXCEPT !.game_over = TRUE]
    /\ t_pc' = "b1019a"
    /\ UNCHANGED << hand_data, t, last_pinch, nticks >>

\* line 1019, first operand: not hand_data.active
BalloonFallbackActive ==
    /\ t_pc = "b1019a"
    /\ t' = [t EXCEPT !.fb = ~hand_data.active]
    /\ t_pc' = IF hand_data.active THEN "b1019b" ELSE "b1020x"
    /\ UNCHANGED << hand_data, last_pinch, nticks, balloon >>

\* line 1019, second operand: hand_data.hands_count == 0
BalloonFallbackHandsCount ==
    /\ t_pc = "b1019b"
    /\ t' = [t EXCEPT !.fb = hand_data.hands_count = 0]
    /\ t_pc' = IF hand_data.hands_count = 0 THEN "b1020x" ELSE "b1023"
    /\ UNCHANGED << hand_data, last_pinch, nticks, balloon >>

\* line 1020: hand_data.x, hand_data.y = mouse_pos, first store
BalloonStoreMouseX ==
    /\ t_pc = "b1020x"
    /\ hand_data' = [hand_data EXCEPT !.x = t.mouse[1]]
    /\ t_pc' = "b1020y"
    /\ UNCHANGED << t, last_pinch, nticks, balloon >>

\* line 1020, second store
BalloonStoreMouseY ==
    /\ t_pc = "b1020y"
    /\ hand_data' = [hand_data EXCEPT !.y = t.mouse[2]]
    /\ t_pc' = "b1023"
    /\ UNCHANGED << t, last_pinch, nticks, balloon >>

\* lines 1022-1049: the hand trail and the balloon closest to the pointer;
\* whether there is one depends on the balloons.
BalloonClosest ==
    /\ t_pc = "b1023"
    /\ \E b \in BOOLEAN : t' = [t EXCEPT !.closest = b]
    /\ t_pc' = "b1052"
    /\ UNCHANGED << hand_data, last_pinch, nticks, balloon >>

\* lines 1052-1059: pop the closest balloon on a rising pinch edge
BalloonEdgeTest ==
    /\ t_pc = "b1052"
    /\ t' = [t EXCEPT !.edge = hand_data.pinching /\ ~last_pinch /\ t.closest]
    /\ t_pc' = "b1061"
    /\ UNCHANGED << hand_data, last_pinch, nticks, balloon >>

\* line 1061: self.last_pinch = hand_data.pinching
BalloonStoreLastPinch ==
    /\ t_pc = "b1061"
    /\ last_pinch' = hand_data.pinching
    /\ t_pc' = "idle"
    /\ UNCHANGED << hand_data, t, nticks, balloon >>

BalloonStep ==
    \/ BalloonLoadActive
    \/ BalloonLoadHandsCount
    \/ BalloonLoadX
    \/ BalloonLoadY
    \/ BalloonLoadPinch
    \/ BalloonStartOverlay
    \/ BalloonUpdateRestart
    \/ BalloonUpdateGameOverRestart
    \/ BalloonQueryButtons
    \/ BalloonUpdateBalloons
    \/ BalloonFallbackActive
    \/ BalloonFallbackHandsCount
    \/ BalloonStoreMouseX
    \/ BalloonStoreMouseY
    \/ BalloonClosest
    \/ BalloonEdgeTest
    \/ BalloonStoreLastPinch

\* ---- ScoreToggle, fruit_ninja_game.py:371-422
\* Times are in units of 1/60000 s: one tick, 1/60 s, is TOGGLE_STEP.  In
\* double arithmetic 0.5 less thirty times 1/60 is 1.04e-16 and 0.3 less
\* eighteen times 1/60 is 4.9e-17, both above zero: the delays carry that
\* excess as one unit.  animation_progress is in steps of
\* animation_speed * dt = 1/15.
\* ScoreToggle(current_width // 2 - 60, 20) on a 1200 x 800 screen (line
\* 488), 120 x 30 (lines 375-376)
ToggleRect == [x |-> 540, y |-> 20, w |-> 120, h |-> 30]

\* __init__, lines 372-383
ScoreToggle ==
    [expanded |-> TRUE, hover |-> FALSE, click_timer |-> 0,
     hand_click_timer |-> 0, animation_progress |-> ANIMATION_STEPS]

\* lines 389-390 and 415-416: the bounds are inclusive on every side
ToggleContains(p) ==
    /\ ToggleRect.x <= p[1] /\ p[1] <= ToggleRect.x + ToggleRect.w
    /\ ToggleRect.y <= p[2] /\ p[2] <= ToggleRect.y + ToggleRect.h

\* lines 404-411: one step of the animation towards the target
ToggleAnimate(progress, expanded) ==
    LET target == IF expanded THEN ANIMATION_STEPS ELSE 0
    IN  IF progress < target THEN Min(target, progress + 1)
        ELSE IF progress > target THEN Max(target, progress - 1)
        ELSE progress

\* ScoreToggle.update, lines 385-411
ToggleUpdateMouseDelay(s, mouse_pos, hand_pos, is_clicking) ==
    LET check_pos == IF hand_pos # None THEN hand_pos ELSE mouse_pos
        hover == ToggleContains(check_pos)
        ct == IF s.click_timer > 0 THEN s.click_timer - TOGGLE_STEP
              ELSE s.click_timer
        ht == IF s.hand_click_timer > 0
              THEN s.hand_click_timer - TOGGLE_STEP
              ELSE s.hand_click_timer
        flip == hover /\ is_clicking /\ ht <= 0
        expanded == IF flip THEN ~s.expanded ELSE s.expanded
    IN  [expanded |-> expanded, hover |-> hover, click_timer |-> ct,
         hand_click_timer |-> IF flip THEN CLICK_DELAY ELSE ht,
         animation_progress |-> ToggleAnimate(s.animation_progress, expanded)]

ToggleUpdate(s, mouse_pos, hand_pos, is_clicking) ==
    LET check_pos == IF hand_pos # None THEN hand_pos ELSE mouse_pos
        hover == ToggleContains(check_pos)
        ct == IF s.click_timer > 0 THEN s.click_timer - TOGGLE_STEP
              ELSE s.click_timer
        ht == IF s.hand_click_timer > 0
              THEN s.hand_click_timer - TOGGLE_STEP
              ELSE s.hand_click_timer
        flip == hover /\ is_clicking /\ ht <= 0
        expanded == IF flip THEN ~s.expanded ELSE s.expanded
    IN  [expanded |-> expanded, hover |-> hover, click_timer |-> ct,
         hand_click_timer |-> IF flip THEN HAND_CLICK_DELAY ELSE ht,
         animation_progress |-> ToggleAnimate(s.animation_progress, expanded)]

\* ScoreToggle.is_clicked(pos, True), lines 413-422: the toggle afterwards
ToggleIsClicked(s, pos) ==
    IF ToggleContains(pos) /\ s.click_timer <= 0
    THEN [s EXCEPT !.expanded = ~@, !.click_timer = CLICK_DELAY]
    ELSE s

\* History of the toggle's calls:
\*   op       the last call ("none", "update", "click")
\*   flipped  the last update changed `expanded`
\*   hov, clk the pointer of the last update was over the toggle, and its
\*            is_clicking
\*   since    updates after the last update that flipped (-1: none flipped)
\*   gap      the value of `since` when the last update flipped, plus one
\*   held     every update after the flip before the last one had the
\*            pointer over the toggle and is_clicking true
ToggleHistory ==
    [op |-> "none", flipped |-> FALSE, hov |-> FALSE, clk |-> FALSE,
     since |-> -1, gap |-> 0, held |-> FALSE]

\* Pointer positions: off the toggle, on its lower right corner, and one
\* pixel beyond it.
MouseToggle == { <<100, 100>>, <<660, 50>> }
HandToggle == { None, <<660, 50>>, <<661, 50>> }

\* fruit_ninja_game.py:675-676, once per tick:
\* score_toggle.update(mouse_pos, hand_pos, hand_data.pinching)
ToggleTick ==
    \E m \in MouseToggle, hp \in HandToggle, pinch \in BOOLEAN :
      LET n == ToggleUpdate(toggle, m, hp, pinch)
          flipped == n.expanded # toggle.expanded
          on == ToggleContains(IF hp # None THEN hp ELSE m) /\ pinch
      IN  /\ toggle' = n
          /\ tg' = [op |-> "update",
                    flipped |-> flipped,
                    hov |-> ToggleContains(IF hp # None THEN hp ELSE m),
                    clk |-> pinch,
                    since |-> IF flipped THEN 0
                              ELSE IF tg.since < 0 THEN tg.since
                              ELSE Min(tg.since + 1, MaxGap),
                    gap |-> IF flipped
                            THEN (IF tg.since < 0 THEN 0 ELSE tg.since + 1)
                            ELSE tg.gap,
                    held |-> IF flipped THEN tg.held
                             ELSE IF tg.since = 0 THEN on
                             ELSE tg.held /\ on]

\* fruit_ninja_game.py:640-643: MOUSEBUTTONDOWN at event.pos
ToggleClick ==
    /\ \E pos \in MouseToggle : toggle' = ToggleIsClicked(toggle, pos)
    /\ tg' = [tg EXCEPT !.op = "click"]

\* ------------------------------------------------- a callback that raises
\* on_tracking_event has no try / except (hand_tracker.py:80-111): an
\* exception raised while it reads the palm (lines 87-92) or a digit joint
\* (lines 99-101) ends the callback there, after the stores already made.
CallbackHistory == [pre |-> HandData, raised |-> FALSE]

\* line 80, remembering the record as the callback found it
DeliverEvent(E) ==
    /\ TrackingEvent(E)
    /\ cb_hist' = [pre |-> hand_data, raised |-> FALSE]

CallbackRaise ==
    /\ cb_pc \in { "l91", "l92", "l99" }
    /\ cb_pc' = "idle"
    /\ cb_hist' = [cb_hist EXCEPT !.raised = TRUE]
    /\ UNCHANGED << hand_data, ev, ncb, published >>

\* Events for the callback with its history: the small set, hands with
\* fewer than two digits, and two hands of which the first has one digit
\* and the second, over the button, pinches.
EventsHist ==
    EventsSmall
      \cup { << Hand(p, <<Thumb>>) >> : p \in PalmsFew }
      \cup { << Hand(<<0, 400>>, <<>>) >> }
      \cup { << Hand(<<0, 400>>, <<Thumb>>),
                Hand(<<-60, 330>>, <<Thumb, <<10, 0, 0>> >>) >> }

\* ------------------------------------------------ the tracker's lifecycle
\* HandTracker (hand_tracker.py:23-61).  Tracker 0 is the main menu's
\* (main_menu.py:298); tracker n >= 1 is the one of the n-th game launched
\* (base_game.py:39).
MenuTracker == 0
Trackers == 0 .. MaxLaunches

\* threading.Thread(target=self._tracking_loop): a thread about to construct
\* its listener and connection and to open it (lines 44-51).
\*   conn   "none" (not opened), "open", "closed"
\*   raised an exception was caught at line 58
\*   mode   history: set_tracking_mode was called on the connection (line 52)
Thread(k) == [owner |-> k, pc |-> "l51", conn |-> "none", raised |-> FALSE,
              mode |-> FALSE]

CallerIdle == [pc |-> "idle", k |-> 0]

\* History of the lifecycle:
\*   nstarts, nstops   calls of start() and of stop()
\*   joined     the thread the last stop() joined before the timeout (0: none)
\*   timed_out  the join of the last stop() timed out
\*   launches   games launched by the menu
\*   fail_tick  ticks begun when opening the connection failed (-1: never)
\*   stopped    the threads that were their tracker's thread at a stop()
Life == [nstarts |-> 0, nstops |-> 0, joined |-> 0, timed_out |-> FALSE,
         launches |-> 0, fail_tick |-> -1, stopped |-> {}]

\* HandTracker.start, lines 30-34: no test of self.running or self.thread
Start(k) ==
    /\ caller.pc = "idle"
    /\ Len(threads) < MaxThreads
    /\ running' = [running EXCEPT ![k] = TRUE]
    /\ threads' = Append(threads, Thread(k))
    /\ thread' = [thread EXCEPT ![k] = Len(threads) + 1]
    /\ life' = [life EXCEPT !.nstarts = @ + 1]
    /\ UNCHANGED caller

\* HandTracker.stop, lines 36-39: the flag, then the join if there is a thread
StopBegin(k) ==
    /\ caller.pc = "idle"
    /\ life.nstops < MaxStops
    /\ running' = [running EXCEPT ![k] = FALSE]
    /\ caller' = IF thread[k] = 0 THEN caller ELSE [pc |-> "l40", k |-> k]
    /\ life' = [life EXCEPT !.nstops = @ + 1, !.joined = 0,
                            !.timed_out = FALSE,
                            !.stopped = IF thread[k] = 0 THEN @
                                        ELSE @ \cup { thread[k] }]
    /\ UNCHANGED << thread, threads >>

\* line 40: join returns because the thread has terminated
StopJoined ==
    /\ caller.pc = "l40"
    /\ threads[thread[caller.k]].pc = "done"
    /\ caller' = CallerIdle
    /\ life' = [life EXCEPT !.joined = thread[caller.k]]
    /\ UNCHANGED << running, thread, threads >>

\* line 40: join returns because timeout=1.0 has elapsed
StopTimeoutUnbounded ==
    /\ caller.pc = "l40"
    /\ FALSE
    /\ UNCHANGED << running, thread, threads, caller, life >>

StopTimeout ==
    /\ caller.pc = "l40"
    /\ threads[thread[caller.k]].pc # "done"
    /\ caller' = CallerIdle
    /\ life' = [life EXCEPT !.timed_out = TRUE]
    /\ UNCHANGED << running, thread, threads >>

\* ---- _tracking_loop, lines 42-61, thread i
\* line 51: connection.open() succeeds
ThreadOpen(i) ==
    /\ threads[i].pc = "l51"
    /\ threads' = [threads EXCEPT ![i].pc = "l52", ![i].conn = "open"]
    /\ UNCHANGED << running, thread, caller, life >>

\* line 51: connection.open() raises; caught at line 58
ThreadOpenFailFallsThrough(i) ==
    /\ threads[i].pc = "l51"
    /\ threads' = [threads EXCEPT ![i].pc = "l52", ![i].raised = TRUE]
    /\ life' = [life EXCEPT !.fail_tick = nticks]
    /\ UNCHANGED << running, thread, caller >>

ThreadOpenFail(i) ==
    /\ threads[i].pc = "l51"
    /\ threads' = [threads EXCEPT ![i].pc = "l61", ![i].raised = TRUE]
    /\ life' = [life EXCEPT !.fail_tick = nticks]
    /\ UNCHANGED << running, thread, caller >>

\* lines 52-53: set_tracking_mode and the message
ThreadSetMode(i) ==
    /\ threads[i].pc = "l52"
    /\ threads' = [threads EXCEPT ![i].pc = "l55", ![i].mode = TRUE]
    /\ UNCHANGED << running, thread, caller, life >>

\* lines 52-53 raise: the exception leaves the with block
ThreadRaiseSkipsClose(i) ==
    /\ threads[i].pc = "l52"
    /\ threads' = [threads EXCEPT ![i].pc = "l61", ![i].raised = TRUE]
    /\ UNCHANGED << running, thread, caller, life >>

ThreadRaise(i) ==
    /\ threads[i].pc = "l52"
    /\ threads' = [threads EXCEPT ![i].pc = "exit", ![i].raised = TRUE]
    /\ UNCHANGED << running, thread, caller, life >>

\* line 55: while self.running
ThreadPoll(i) ==
    /\ threads[i].pc = "l55"
    /\ threads' = [threads EXCEPT ![i].pc =
                      IF running[threads[i].owner] THEN "l56" ELSE "exit"]
    /\ UNCHANGED << running, thread, caller, life >>

\* line 56: time.sleep(HAND_TRACKING_UPDATE_RATE) returns
ThreadSleep(i) ==
    /\ threads[i].pc = "l56"
    /\ threads' = [threads EXCEPT ![i].pc = "l55"]
    /\ UNCHANGED << running, thread, caller, life >>

\* the end of the with block of line 51 closes the connection, whether the
\* block ended normally or by an exception (then caught at line 58)
ThreadClose(i) ==
    /\ threads[i].pc = "exit"
    /\ threads' = [threads EXCEPT ![i].pc = "l61", ![i].conn = "closed"]
    /\ UNCHANGED << running, thread, caller, life >>

\* line 61: the thread function returns
ThreadFinishRestarts(i) ==
    /\ threads[i].pc = "l61"
    /\ IF threads[i].raised /\ Len(threads) < MaxThreads
       THEN threads' = Append([threads EXCEPT ![i].pc = "done"],
                              Thread(threads[i].owner))
       ELSE threads' = [threads EXCEPT ![i].pc = "done"]
    /\ UNCHANGED << running, thread, caller, life >>

ThreadFinish(i) ==
    /\ threads[i].pc = "l61"
    /\ threads' = [threads EXCEPT ![i].pc = "done"]
    /\ UNCHANGED << running, thread, caller, life >>

ThreadStep ==
    \E i \in 1 .. Len(threads) :
        \/ ThreadOpen(i)
        \/ ThreadOpenFail(i)
        \/ ThreadSetMode(i)
        \/ ThreadRaise(i)
        \/ ThreadPoll(i)
        \/ ThreadSleep(i)
        \/ ThreadClose(i)
        \/ ThreadFinish(i)

\* The threads created for tracker k, and the open connections.
ThreadsOf(k) == { i \in 1 .. Len(threads) : threads[i].owner = k }
OpenConnections == { i \in 1 .. Len(threads) : threads[i].conn = "open" }

\* ---- the render thread's use of the trackers
\* MainMenu.run, lines 564-567
MenuRunStart ==
    /\ main_pc = "init"
    /\ Start(MenuTracker)
    /\ main_pc' = "menu"

\* MainMenu.run, lines 569 and 577: the loop ends between two iterations
MenuRunStop ==
    /\ main_pc = "menu"
    /\ t_pc = "idle"
    /\ StopBegin(MenuTracker)
    /\ main_pc' = "menu_stop"

\* MainMenu.launch_game, lines 372-383: the game is constructed, with a
\* tracker of its own, and its run() is entered; the menu's tracker is left
\* as it is
LaunchGame ==
    /\ main_pc = "menu"
    /\ life.launches < MaxLaunches
    /\ life' = [life EXCEPT !.launches = @ + 1]
    /\ main_pc' = "game_start"
    /\ UNCHANGED << running, thread, threads, caller >>

\* BaseGame.run line 135, start_game lines 122-126
GameStartGame ==
    /\ main_pc = "game_start"
    /\ Start(life.launches)
    /\ main_pc' = "game"

\* BaseGame.run line 161, cleanup lines 128-131
GameCleanup ==
    /\ main_pc = "game"
    /\ StopBegin(life.launches)
    /\ main_pc' = "game_stop"

\* BaseGame.run line 162 and launch_game lines 383-388: back in the menu
GameReturn ==
    /\ main_pc = "game_stop"
    /\ caller.pc = "idle"
    /\ main_pc' = "menu"
    /\ UNCHANGED << running, thread, threads, caller, life >>

\* A tracking event is delivered to the listener of an open connection.
ConnectionOpen(k) == \E i \in ThreadsOf(k) : threads[i].conn = "open"

\* ------------------------------------------------------------ specifications
InitCommon ==
    /\ hand_data = HandData
    /\ cb_pc = "idle"
    /\ ev = <<>>
    /\ ncb = 0
    /\ published = { HandData }
    /\ t_pc = "idle"
    /\ t = TickLocals(<<0, 0>>)
    /\ last_pinch = FALSE
    /\ nticks = 0
    /\ btn = Button
    /\ c = CtlHistory
    /\ cb_hist = CallbackHistory
    /\ running = [k \in Trackers |-> FALSE]
    /\ thread = [k \in Trackers |-> 0]
    /\ threads = <<>>
    /\ caller = CallerIdle
    /\ main_pc = "init"
    /\ life = Life
    /\ toggle = ScoreToggle
    /\ tg = ToggleHistory

InitOther == InitCommon /\ balloon = BalloonPop

\* The acquisition callback alone, over the wide input set.
InitAcq == InitOther /\ screen = "menu" /\ game_state = "playing"

NextAcq ==
    \/ TrackingEvent(EventsWide)
         /\ UNCHANGED << tickVars, ctlVars, cb_hist, lifeVars >>
    \/ CallbackStep /\ UNCHANGED << tickVars, ctlVars, cb_hist, lifeVars >>

SpecAcq == InitAcq /\ [][NextAcq]_vars

\* The acquisition callback alone, with its history and with exceptions.
NextAcqHist ==
    \/ DeliverEvent(EventsHist) /\ UNCHANGED << tickVars, ctlVars, lifeVars >>
    \/ CallbackStep /\ UNCHANGED << tickVars, ctlVars, cb_hist, lifeVars >>
    \/ CallbackRaise /\ UNCHANGED << tickVars, ctlVars, lifeVars >>

SpecAcqHist == InitAcq /\ [][NextAcqHist]_vars

\* The control driven by arbitrary calls.
SpecCtl == InitAcq /\ [][NextCtl]_vars

\* The acquisition callback interleaved with the render loop of the menu or
\* of a game.
Init ==
    /\ InitOther
    /\ screen \in { "menu", "game" }
    /\ game_state \in { "playing", "game_over" }
    /\ screen = "menu" => game_state = "playing"

Next ==
    \/ TrackingEvent(EventsSmall)
         /\ UNCHANGED << tickVars, ctlVars, cb_hist, lifeVars >>
    \/ CallbackStep /\ UNCHANGED << tickVars, ctlVars, cb_hist, lifeVars >>
    \/ TickBegin
         /\ UNCHANGED << cb_pc, ev, ncb, published, c, cb_hist, lifeVars,
                         balloon, toggleVars >>
    \/ MenuStep
         /\ UNCHANGED << cb_pc, ev, ncb, published, c, cb_hist, lifeVars,
                         balloon, toggleVars >>
    \/ GameStep
         /\ UNCHANGED << cb_pc, ev, ncb, published, c, cb_hist, lifeVars,
                         balloon, toggleVars >>

Spec == Init /\ [][Next]_vars

\* The same loops with the history of the tick before, and a producer that
\* reports no hand or one pinching hand.
EventsTicks == { <<>>, << Hand(<<-60, 330>>, <<Thumb, <<10, 0, 0>> >>) >> }

NextTicks ==
    \/ TrackingEvent(EventsTicks)
         /\ UNCHANGED << tickVars, ctlVars, cb_hist, lifeVars >>
    \/ CallbackStep /\ UNCHANGED << tickVars, ctlVars, cb_hist, lifeVars >>
    \/ TickBeginHist
         /\ UNCHANGED << cb_pc, ev, ncb, published, c, cb_hist, lifeVars,
                         balloon, toggleVars >>
    \/ MenuStep
         /\ UNCHANGED << cb_pc, ev, ncb, published, c, cb_hist, lifeVars,
                         balloon, toggleVars >>
    \/ GameStep
         /\ UNCHANGED << cb_pc, ev, ncb, published, c, cb_hist, lifeVars,
                         balloon, toggleVars >>

SpecTicks == Init /\ [][NextTicks]_vars

\* One tracker driven by arbitrary calls of start() and stop().
tickCtlVars == << t_pc, t, last_pinch, nticks, screen, game_state, btn, c,
                 balloon, toggleVars >>
otherVars == << acqVars, tickCtlVars, cb_hist >>

NextLife ==
    \/ Start(MenuTracker) /\ UNCHANGED << main_pc, otherVars >>
    \/ StopBegin(MenuTracker) /\ UNCHANGED << main_pc, otherVars >>
    \/ StopJoined /\ UNCHANGED << main_pc, otherVars >>
    \/ StopTimeout /\ UNCHANGED << main_pc, otherVars >>
    \/ ThreadStep /\ UNCHANGED << main_pc, otherVars >>

SpecLife == InitAcq /\ [][NextLife]_vars

\* The caller of stop() keeps running and the timeout of the join elapses:
\* a join in progress returns.  Nothing is assumed of the acquisition thread.
JoinReturns == (StopJoined \/ StopTimeout) /\ UNCHANGED << main_pc, otherVars >>

SpecLifeFair == SpecLife /\ WF_vars(JoinReturns)

\* The operating system also keeps scheduling every acquisition thread, and
\* connection.open() returns or raises: a thread that can take a step takes
\* one.
ThreadRuns(i) ==
    /\ i <= Len(threads)
    /\ \/ ThreadOpen(i)
       \/ ThreadOpenFail(i)
       \/ ThreadSetMode(i)
       \/ ThreadRaise(i)
       \/ ThreadPoll(i)
       \/ ThreadSleep(i)
       \/ ThreadClose(i)
       \/ ThreadFinish(i)
    /\ UNCHANGED << main_pc, otherVars >>

SpecLifeSched ==
    SpecLifeFair /\ \A i \in 1 .. MaxThreads : WF_vars(ThreadRuns(i))

\* MainMenu.run: the menu's tracker, the callbacks of its connection and the
\* ticks of the menu.
NextMenu ==
    \/ MenuRunStart /\ UNCHANGED otherVars
    \/ MenuRunStop /\ UNCHANGED otherVars
    \/ StopJoined /\ UNCHANGED << main_pc, otherVars >>
    \/ StopTimeout /\ UNCHANGED << main_pc, otherVars >>
    \/ ThreadStep /\ UNCHANGED << main_pc, otherVars >>
    \/ ConnectionOpen(MenuTracker) /\ ncb < MaxMenuCallbacks
         /\ TrackingEvent(EventsSmall)
         /\ UNCHANGED << tickVars, ctlVars, cb_hist, lifeVars >>
    \/ CallbackStep /\ UNCHANGED << tickVars, ctlVars, cb_hist, lifeVars >>
    \/ main_pc = "menu" /\ TickBegin
         /\ UNCHANGED << cb_pc, ev, ncb, published, c, cb_hist, lifeVars,
                         balloon, toggleVars >>
    \/ MenuStep
         /\ UNCHANGED << cb_pc, ev, ncb, published, c, cb_hist, lifeVars,
                         balloon, toggleVars >>

SpecMenu == InitAcq /\ [][NextMenu]_vars

\* MainMenu.run with the games it launches: the trackers, their threads and
\* connections.
NextProc ==
    \/ MenuRunStart /\ UNCHANGED otherVars
    \/ LaunchGame /\ UNCHANGED otherVars
    \/ GameStartGame /\ UNCHANGED otherVars
    \/ GameCleanup /\ UNCHANGED otherVars
    \/ GameReturn /\ UNCHANGED otherVars
    \/ MenuRunStop /\ UNCHANGED otherVars
    \/ StopJoined /\ UNCHANGED << main_pc, otherVars >>
    \/ StopTimeout /\ UNCHANGED << main_pc, otherVars >>
    \/ ThreadStep /\ UNCHANGED << main_pc, otherVars >>

SpecProc == InitAcq /\ [][NextProc]_vars

\* The acquisition callback interleaved with the render loop of the balloon
\* game, in its start overlay, while playing, and in game over.
InitBalloon ==
    /\ InitCommon
    /\ screen = "game"
    /\ game_state = "playing"
    /\ balloon \in { BalloonPop,
                     [BalloonPop EXCEPT !.game_state = "PLAYING"],
                     [BalloonPop EXCEPT !.game_state = "PLAYING",
                                        !.game_over = TRUE] }

NextBalloon ==
    \/ ncb < MaxBalloonCallbacks /\ TrackingEvent(EventsBalloon)
         /\ UNCHANGED << tickVars, ctlVars, cb_hist, lifeVars >>
    \/ CallbackStep /\ UNCHANGED << tickVars, ctlVars, cb_hist, lifeVars >>
    \/ BalloonTickBegin
         /\ UNCHANGED << cb_pc, ev, ncb, published, screen, game_state, btn, c,
                         cb_hist, lifeVars, toggleVars >>
    \/ BalloonStep
         /\ UNCHANGED << cb_pc, ev, ncb, published, screen, game_state, btn, c,
                         cb_hist, lifeVars, toggleVars >>

SpecBalloon == InitBalloon /\ [][NextBalloon]_vars

\* The score toggle driven by arbitrary ticks and mouse clicks.
NextToggle ==
    \/ ToggleTick
         /\ UNCHANGED << acqVars, t_pc, t, last_pinch, nticks, screen,
                         game_state, balloon, ctlVars, cb_hist, lifeVars >>
    \/ ToggleClick
         /\ UNCHANGED << acqVars, t_pc, t, last_pinch, nticks, screen,
                         game_state, balloon, ctlVars, cb_hist, lifeVars >>

SpecToggle == InitAcq /\ [][NextToggle]_vars

TickCompleted == t_pc = "idle" /\ nticks > 0

\* ------------------------------------------------- shared record, C1 .. C2
\* C1: no torn reads: the tuple of fields that a tick of the render thread
\* loads from the shared record equals the initial record or the record as
\* it stood at the end of one completed callback (observed when no callback
\* is in progress, so that every record the tick can have seen is published).
C1_NoTornRead ==
    (TickCompleted /\ cb_pc = "idle") =>
        \E r \in published : \A f \in DOMAIN t.rd : t.rd[f] = r[f]

\* C2: single writer: no step of the render loop changes a field of the
\* shared record.
C2_RenderNeverWrites ==
    [][t_pc' # t_pc => hand_data' = hand_data]_vars

\* ------------------------------------------- pointer of the tick, C7 .. C8
\* C7: a tick whose pose has active = false or hands_count = 0 uses
\* pinching = false for the rising-edge test and for the control update.
C7_FallbackNeverPinches ==
    (TickCompleted /\ (~t.pose.active \/ t.pose.hands_count = 0)) =>
        /\ ~t.edge_pinch
        /\ ~(t.ctl_used /\ t.ctl_pinch)

\* C8: the pointer of a tick is the pose's (x, y, pinching) when the pose
\* has active = true and hands_count > 0, and otherwise the mouse position
\* with pinching = false and no hand position.
C8_PointerSelection ==
    TickCompleted =>
        IF t.pose.active /\ t.pose.hands_count > 0
        THEN /\ t.hand_pos = << t.pose.x, t.pose.y >>
             /\ t.edge => t.act_pos = << t.pose.x, t.pose.y >>
             /\ screen = "game" => t.edge_pinch = t.pose.pinching
             /\ t.ctl_used => t.ctl_pinch = t.pose.pinching
        ELSE /\ t.hand_pos = None
             /\ t.edge => t.act_pos = t.mouse
             /\ ~t.edge_pinch
             /\ ~(t.ctl_used /\ t.ctl_pinch)

\* ------------------------------------------------ dwell control, C3 .. C6
\* First tick at which the accumulated hover time reaches the threshold.
DwellTicks == (HAND_HOVER_TIME_THRESHOLD + HOVER_STEP - 1) \div HOVER_STEP

\* The control was updated and then queried once, as on every tick before.
QueriedOnce == c.op = "query" /\ c.nq = 1

\* C3: with the hand continuously inside and not pinching, and one query
\* after every update, the query returns true on exactly one tick, the
\* first tick at which the hover time reaches the threshold, and false on
\* every other tick of the stay.
C3_OneShotDwell ==
    (QueriedOnce /\ c.ok /\ c.run >= 1) => (c.ret <=> c.run = DwellTicks)

\* C4: with the hand inside and pinching on consecutive ticks, and one query
\* after every update, the query returns true on the first of those ticks
\* and false on all the following ones.
C4_NoDoubleFire ==
    (QueriedOnce /\ c.ok /\ c.prun >= 1) => (c.ret <=> c.prun = 1)

\* C5: on a tick with the hand inside where pinching went from false (tick
\* before) to true, the query after the update returns true, whatever the
\* hover accumulator was.
C5_PinchBypassesDwell ==
    (QueriedOnce /\ c.hov /\ c.pin /\ ~c.ppin) => c.ret

\* The pinch arrived in the middle of a dwell: the accumulator was neither
\* zero nor at the threshold, and the query returned true.
C5_Witness ==
    /\ QueriedOnce /\ c.hov /\ c.pin /\ ~c.ppin
    /\ c.acc > 0 /\ c.acc < HAND_HOVER_TIME_THRESHOLD
    /\ c.ret

\* C6: two queries with no update between them never both return true; a
\* query that returns true clears the latch, and one that returns false
\* leaves the control as it was.
C6_ConsumeOnce ==
    [][ c'.nq = c.nq + 1 =>
          /\ (c.nq >= 1 /\ c.ret) => ~c'.ret
          /\ c'.ret => ~btn'.hand_activated
          /\ ~c'.ret => btn' = btn ]_vars

\* A second query right after one that returned true, returning false.
C6_Witness == c.op = "query" /\ c.nq = 2 /\ c.pret /\ ~c.ret

\* -------------------------------------------------- classifier, C9 .. C10
\* A callback has run to its end and `ev` is the event it classified.
CallbackCompleted == cb_pc = "idle" /\ ncb > 0

\* C9: when a tracking callback with at least one hand completes, the
\* published x is in [0, WINDOW_WIDTH] and the published y is in
\* [0, WINDOW_HEIGHT], for every palm position.
C9_Clamped ==
    (CallbackCompleted /\ Len(ev) > 0) =>
        /\ hand_data.x \in 0..WINDOW_WIDTH
        /\ hand_data.y \in 0..WINDOW_HEIGHT

\* A palm far to the right of and far below the device span was classified:
\* both raw coordinates were out of range (x too large, y negative).
C9_Witness ==
    /\ CallbackCompleted /\ Len(ev) > 0
    /\ ScreenX(ev[1].palm[1]) > WINDOW_WIDTH
    /\ ScreenY(ev[1].palm[2]) < 0
    /\ hand_data.x = WINDOW_WIDTH
    /\ hand_data.y = 0

\* C10: for a hand with at least two digits the published pinching flag is
\* true exactly when the thumb-tip/index-tip distance is strictly below
\* HAND_PINCH_THRESHOLD; a distance of exactly 30 gives false.
C10_PinchStrict ==
    (CallbackCompleted /\ Len(ev) > 0 /\ Len(ev[1].digits) >= 2) =>
        (hand_data.pinching <=>
            SqDist(ev[1].digits[1], ev[1].digits[2])
              < HAND_PINCH_THRESHOLD * HAND_PINCH_THRESHOLD)

\* A hand whose tips are exactly 30 apart (off-axis) was classified as not
\* pinching.
C10_Witness ==
    /\ CallbackCompleted /\ Len(ev) > 0 /\ Len(ev[1].digits) >= 2
    /\ SqDist(ev[1].digits[1], ev[1].digits[2])
         = HAND_PINCH_THRESHOLD * HAND_PINCH_THRESHOLD
    /\ ev[1].digits[2] = <<20, 20, 10>>
    /\ ~hand_data.pinching

\* ------------------------------------------------ failures, C11 .. C13
\* C11: once the acquisition thread has ended through an exception raised
\* while its connection was open, the shared record has active = false (so
\* that every later tick takes the fallback pointer).
C11_FailureMarksInactive ==
    \A i \in ThreadsOf(MenuTracker) :
        (threads[i].raised /\ threads[i].conn = "closed"
           /\ threads[i].pc = "done" /\ cb_pc = "idle")
          => ~hand_data.active

\* C12: when a callback ends by an exception, the shared record is exactly
\* what it was before that callback began.
C12_FailingCallbackPublishesNothing ==
    (cb_pc = "idle" /\ cb_hist.raised) => hand_data = cb_hist.pre

\* C13: when opening the connection fails, the thread goes to its end
\* without a connection, the render loop goes on, the shared record keeps
\* active = false, no tick gets a hand position and no control is
\* hand-activated.
C13_OpenFailureFallbackOnly ==
    life.fail_tick >= 0 =>
        /\ \A i \in ThreadsOf(MenuTracker) :
              threads[i].pc \in { "l61", "done" } /\ threads[i].conn = "none"
        /\ main_pc \in { "menu", "menu_stop" }
        /\ ~hand_data.active
        /\ t.hand_pos = None
        /\ ~t.activated
        /\ ~btn.hand_activated

\* The connection could not be opened, the thread has ended, and a tick
\* begun after that has run to its end with the mouse over the card.
C13_Witness ==
    /\ life.fail_tick >= 0
    /\ threads[1].pc = "done"
    /\ TickCompleted
    /\ nticks > life.fail_tick
    /\ t.mouse = <<520, 480>>
    /\ btn.hovered
    /\ ~t.activated

\* ------------------------------------------------- lifecycle, C14 .. C18
\* C14: as long as stop() has not been called, any number of calls of
\* start() leaves one acquisition thread and at most one open connection
\* for the tracker.
C14_IdempotentStart ==
    life.nstops = 0 =>
        /\ Cardinality(ThreadsOf(MenuTracker)) <= 1
        /\ Cardinality(OpenConnections) <= 1

\* C15: during the join of stop() the running flag is false, and a join in
\* progress returns, whatever the acquisition thread does.
C15_StopReturns ==
    /\ [](caller.pc = "l40" => ~running[caller.k])
    /\ (caller.pc = "l40" ~> caller.pc = "idle")

\* stop() has returned by the timeout while the thread is still opening its
\* connection.
C15_Witness ==
    /\ caller.pc = "idle"
    /\ life.timed_out
    /\ thread[MenuTracker] # 0
    /\ threads[thread[MenuTracker]].pc = "l51"
    /\ ~running[MenuTracker]

\* C16: a thread past the end of its with block, by the flag or by an
\* exception, has no open connection; a thread that stop() joined before
\* the timeout has terminated with its connection closed; and a thread that
\* polls the flag when it is false leaves the loop.
C16_ShutdownOrder ==
    /\ [](\A i \in 1 .. Len(threads) :
            threads[i].pc \in { "l61", "done" } => threads[i].conn # "open")
    /\ [](life.joined # 0 =>
            /\ threads[life.joined].pc = "done"
            /\ threads[life.joined].conn # "open")
    /\ [][\A i \in 1 .. Len(threads) :
            (threads[i].pc = "l55" /\ ~running[threads[i].owner]
               /\ threads'[i] # threads[i])
              => threads'[i].pc = "exit"]_vars

\* stop() joined, before the timeout, a thread that had been in its poll
\* loop: the connection is closed and no exception was raised.
C16_Witness ==
    /\ life.joined # 0
    /\ caller.pc = "idle"
    /\ threads[life.joined].conn = "closed"
    /\ ~threads[life.joined].raised

C18_NoAutoReconnect ==
    [][ /\ Len(threads') > Len(threads) => life'.nstarts = life.nstarts + 1
        /\ \A i \in 1 .. Len(threads) :
             /\ threads[i].pc = "done" => threads'[i] = threads[i]
             /\ (threads'[i].conn = "open" /\ threads[i].conn # "open")
                  => threads[i].conn = "none" ]_vars

\* After the first thread ended by an exception, a second call of start()
\* made a second thread, which has opened a connection of its own.
C18_Witness ==
    /\ Len(threads) = 2
    /\ life.nstarts = 2
    /\ threads[1].pc = "done" /\ threads[1].raised
    /\ threads[1].conn = "closed"
    /\ threads[2].conn = "open"

\* C31: the thread that was the tracker's thread when stop() was called
\* eventually leaves its loop and terminates, also when start() is called
\* again afterwards.
C31_StoppedThreadStops ==
    \A i \in 1 .. MaxThreads :
        (i \in life.stopped)
           ~> (i <= Len(threads) /\ threads[i].pc = "done")

\* ------------------------------------------- the first hand, C24 .. C25
\* C24: a completed callback whose first hand has fewer than two digits
\* leaves pinching = false, whatever it was before; and when the event has
\* several hands, position and pinch are those of the first hand only.
C24_FewDigitsFirstHand ==
    (CallbackCompleted /\ ~cb_hist.raised /\ Len(ev) > 0) =>
        /\ Len(ev[1].digits) < 2 => ~hand_data.pinching
        /\ Len(ev) > 1 =>
              /\ hand_data.x = Clamp(ScreenX(ev[1].palm[1]), WINDOW_WIDTH)
              /\ hand_data.y = Clamp(ScreenY(ev[1].palm[2]), WINDOW_HEIGHT)
              /\ hand_data.pinching <=>
                    /\ Len(ev[1].digits) >= 2
                    /\ IsPinch(ev[1].digits[1], ev[1].digits[2])

\* Two hands arrived while the record said pinching: the first, at the
\* centre with one digit, gave (600, 400) and pinching = false although the
\* second one pinches over the button.
C24_Witness ==
    /\ CallbackCompleted /\ ~cb_hist.raised
    /\ Len(ev) = 2 /\ Len(ev[1].digits) = 1
    /\ cb_hist.pre.pinching
    /\ ~hand_data.pinching /\ hand_data.hands_count = 2
    /\ hand_data.x = 600 /\ hand_data.y = 400

\* C25: in every reachable state, also between two steps of a callback,
\* hand_data.x is in [0, WINDOW_WIDTH] and hand_data.y in [0, WINDOW_HEIGHT].
C25_AlwaysClamped ==
    /\ 0 <= hand_data.x /\ hand_data.x <= WINDOW_WIDTH
    /\ 0 <= hand_data.y /\ hand_data.y <= WINDOW_HEIGHT

\* --------------------------------------- one pose per tick, C26 .. C29
\* C26: every decision of a game tick uses one pinching value: the one the
\* edge test saw is the one stored into last_pinch and the one handed to
\* the controls; a tick whose edge test saw false never stores true.
C26_OneReadPerTick ==
    (TickCompleted /\ screen = "game") =>
        /\ last_pinch = t.edge_pinch
        /\ t.ctl_used => t.ctl_pinch = t.edge_pinch

\* C27: last_pinch ends every tick equal to that tick's pinching value: at
\* the end of a tick during which no callback ran, whatever the state of
\* the game, last_pinch is the pinching of the shared record.
C27_EdgeTrackerAdvanced ==
    (TickCompleted /\ t.b_idle /\ cb_pc = "idle" /\ ncb = t.b_ncb)
      => last_pinch = hand_data.pinching

\* C28: in game_over, one rising pinch edge over PLAY AGAIN calls
\* reset_game_only() once, not twice, in that tick.
C28_OneResetPerEdge == t.resets <= 1

\* C29: a hand_pos handed to a control is never the mouse position of that
\* tick.
C29_HandPosNeverMouse ==
    (t.ctl_used /\ t.hand_pos # None) => t.hand_pos # t.mouse

\* ------------------------------------------------- tracking mode, C23
\* C23: the tracking mode of a connection is set only after the connection
\* was opened and before it is closed; a thread whose open failed never
\* sets it.
C23_ModeOnlyWhileOpen ==
    /\ [][ \A i \in 1 .. Len(threads) :
             (~threads[i].mode /\ threads'[i].mode) =>
                (threads[i].conn = "open" /\ threads'[i].conn = "open") ]_vars
    /\ [](\A i \in 1 .. Len(threads) :
             threads[i].conn = "none" => ~threads[i].mode)

\* One thread failed to open and ended without setting the mode; a later
\* one opened its connection, set the mode and is polling.
C23_Witness ==
    \E i, j \in 1 .. Len(threads) :
        /\ threads[i].raised /\ threads[i].conn = "none"
        /\ threads[i].pc = "done" /\ ~threads[i].mode
        /\ threads[j].conn = "open" /\ threads[j].mode
        /\ threads[j].pc = "l56"

\* -------------------------------------- the accumulator, C21, C22, C30
\* C21: after any update in which the hand pointer is not inside the bounds
\* (outside, or none supplied) the hover accumulator is 0 and no activation
\* is pending; and the accumulator grows only in an update with the hand
\* pointer inside.
C21_IdleOutside ==
    /\ []((c.op = "update" /\ ~c.hov) =>
            (btn.hand_hover_time = 0 /\ ~btn.hand_activated))
    /\ [][ btn'.hand_hover_time > btn.hand_hover_time =>
             (c'.op = "update" /\ c'.hov) ]_vars

\* The hand pointer, present, left the control in the middle of a dwell.
C21_Witness ==
    /\ c.op = "update" /\ ~c.hov /\ ~c.abs
    /\ c.acc > 0 /\ c.acc < HAND_HOVER_TIME_THRESHOLD
    /\ btn.hand_hover_time = 0 /\ ~btn.hand_activated

\* C22: at the end of any update that fires an activation (the dwell
\* threshold is reached, or the hand is inside and pinching) the hover
\* accumulator is 0, before any query.
C22_FiringResets ==
    (c.op = "update" /\ c.hov
       /\ (c.pin \/ c.acc + HOVER_STEP >= HAND_HOVER_TIME_THRESHOLD))
      => btn.hand_hover_time = 0

\* C32: in every state a pending activation implies that the most recent
\* update had the hand pointer inside the bounds; an activation not queried
\* before the pointer left is discarded: no later query returns it.
C32_PendingImpliesInside ==
    /\ btn.hand_activated => (c.op # "none" /\ c.hov)
    /\ (c.op = "query" /\ ~c.hov) => ~c.ret

\* An activation was pending when the pointer, present, left the control;
\* the query that followed returned false.
C32_Witness ==
    /\ c.op = "query" /\ c.nq = 1
    /\ c.pend /\ ~c.hov /\ ~c.abs
    /\ ~c.ret /\ ~btn.hand_activated

\* C30: every update given no hand_pos leaves the hover accumulator at 0
\* and no activation pending, wherever the mouse is and whatever
\* hand_pinching is; every query after such an update returns false.
C30_MouseNeverDwells ==
    /\ (c.op = "update" /\ c.abs) =>
          (btn.hand_hover_time = 0 /\ ~btn.hand_activated)
    /\ (c.op = "query" /\ c.abs) => ~c.ret

\* No hand_pos, the mouse on the control and hand_pinching true: the query
\* returned false.
C30_Witness ==
    /\ c.op = "query" /\ c.abs /\ c.pin /\ btn.hovered
    /\ ~c.ret /\ btn.hand_hover_time = 0

\* ------------------------------------------- stale and empty samples, C19
\* C19: when no callback has run since the tick before began, a tick finds
\* the shared record exactly as the tick before found it.
C19_FrozenPose ==
    (nticks >= 2 /\ t_pc \notin { "m426a", "g693a" }
       /\ t.prev_idle /\ cb_pc = "idle" /\ ncb = t.prev_ncb)
      => t.pose = t.prev

\* C20: a completed callback of an event without hands leaves active = true,
\* hands_count = 0, pinching = false, and x and y as they were before it.
C20_ZeroHands ==
    (CallbackCompleted /\ ~cb_hist.raised /\ Len(ev) = 0) =>
        /\ hand_data.active
        /\ hand_data.hands_count = 0
        /\ ~hand_data.pinching
        /\ hand_data.x = cb_hist.pre.x
        /\ hand_data.y = cb_hist.pre.y

\* The event without hands came after a pinching hand at (510, 470): the
\* position is kept and the pinch is dropped.
C20_Witness ==
    /\ CallbackCompleted /\ ~cb_hist.raised /\ Len(ev) = 0
    /\ cb_hist.pre.pinching /\ cb_hist.pre.hands_count = 1
    /\ cb_hist.pre.x = 510 /\ cb_hist.pre.y = 470
    /\ hand_data.x = 510 /\ hand_data.y = 470

\* ------------------------------------------------------ score toggle, C33
\* C33: an update flips `expanded` only with the pointer over the toggle and
\* is_clicking true, and never within the 29 updates that follow an update
\* that flipped it.
C33_ToggleDebounce ==
    (tg.op = "update" /\ tg.flipped) =>
        /\ tg.hov /\ tg.clk
        /\ tg.gap = 0 \/ tg.gap >= 30

\* The pointer stayed over the toggle with the pinch held after a flip: the
\* toggle has flipped again, on the 31st update after it.
C33_Witness ==
    /\ tg.op = "update" /\ tg.flipped
    /\ tg.held /\ tg.gap = 31
    /\ ~toggle.expanded

====
